---- MODULE Spec2Model ----
(***************************************************************************)
(* Model of scripts/clawsino.py: the credential store (load / atomic       *)
(* save through store.json.tmp), agent keypair generation, the agent       *)
(* challenge-response login, the device-start key persistence, the         *)
(* resolution of the session token and the lookup of the displayed handle. *)
(*                                                                         *)
(* Every CLI invocation is a process.  A process is single threaded; its   *)
(* steps are the system calls it makes (file read, open/truncate, write,   *)
(* rename, HTTP exchange).  Local computation is folded into the system    *)
(* call that precedes it.                                                  *)
(***************************************************************************)
EXTENDS Integers, Sequences, FiniteSets, TLC

VARIABLES
    mode,       \* "seq": agent-auth and device-start invocations run one
                \*        after the other
                \* "ext": as "seq", plus external atomic edits of the store
                \* "conc": two invocations may run at the same time
                \* "use": as "seq", plus the commands that only read the store
    storeFile,  \* the file at _store_path()
    tmpFile,    \* the file at _store_path() + ".tmp"
    proc,       \* per process: program counter and local variables
    keysMade,   \* number of keys drawn from the random source so far
    runs,       \* number of invocations started so far
    edits,      \* number of external edits so far
    verifyPubs, \* history: per handle, the public keys sent to /v1/agent/verify
    startReqs   \* history: per device handle, the publicKey of every request
                \* sent to /v1/device/start and whether _req raised

vars == <<mode, storeFile, tmpFile, proc, keysMade, runs, edits, verifyPubs, startReqs>>

----------------------------------------------------------------------------
(* Bounds *)

MaxRuns == 3        \* invocations in a sequential behaviour
MaxExtRuns == 2     \* invocations in a behaviour with external edits
MaxEdits == 1       \* external edits of the store file in a behaviour
MaxUseRuns == 2     \* invocations in a behaviour with all the commands

Procs == {1, 2}
Handles == {"alice", "bob"}
HandleOrder == <<"alice", "bob">>          \* sort_keys=True order
DevHandles == {"openclaw-bot"}
DevOrder == <<"openclaw-bot">>
ChallengeIds == {"c1", "c2"}
Messages == {"m1"}
SessionTokens == {"s1", " s2 "}              \* the second one is padded
Expiries == {"e1"}

----------------------------------------------------------------------------
(* Values *)

NoField == "<absent>"           \* a key that is not in the dict / JSON object

NoKey == [enc |-> "none", kind |-> "none", id |-> 0]

\* Raw 32-byte ed25519 public key of keypair k (public_bytes Raw/Raw).
PublicKeyRaw(k) == [enc |-> "bytes", kind |-> "raw", id |-> k]

\* PKCS8 DER encoding of the private key of keypair k.
PrivateKeyDer(k) == [enc |-> "bytes", kind |-> "pkcs8", id |-> k]

\* os.urandom(32) draw number k.
Urandom(k) == [enc |-> "bytes", kind |-> "urandom", id |-> k]

\* base64.b64encode(b).decode("ascii")
b64(b) == [b EXCEPT !.enc = "b64"]

\* base64.b64decode(s.encode("ascii"))
b64d(s) == [s EXCEPT !.enc = "bytes"]

\* Python's None as the value of `token`.
None == "<None>"

\* s.strip() on the strings of the model: the padded ones lose their padding.
Strip(s) ==
    IF s = " " THEN ""
    ELSE IF s = " tok-X " THEN "tok-X"
    ELSE IF s = " s2 " THEN "s2"
    ELSE IF s = " alice " THEN "alice"
    ELSE s

\* Python truthiness of an optional string field.
Truthy(s) == s # NoField /\ s # ""

\* The empty dict {} as an agent record.
NoEnt ==
    [publicKeyB64 |-> NoKey, privateKeyPkcs8B64 |-> NoKey,
     lastSessionToken |-> NoField, lastSessionExpiresAt |-> NoField]

EmptyMap == [x \in {} |-> NoEnt]

\* {"agents": {}, "devices": {}}
EmptyStore == [agents |-> EmptyMap, devices |-> EmptyMap]

\* d[k] = v on a dict
SetAt(d, k, v) == [x \in (DOMAIN d) \cup {k} |-> IF x = k THEN v ELSE d[x]]

\* d.get(k) or {}
GetEnt(d, k) == IF k \in DOMAIN d THEN d[k] ELSE NoEnt

\* (d.get(k) or "")
GetKey(d, k) == IF k \in DOMAIN d THEN d[k] ELSE NoKey

----------------------------------------------------------------------------
(* Serialization: json.dump(store, indent=2, sort_keys=True) + "\n".       *)
(* A file is a sequence of pieces; a write may stop between any two.       *)

Piece(t, h, rec, dev) == [t |-> t, h |-> h, rec |-> rec, dev |-> dev]

OpenPiece == Piece("{", "", NoEnt, NoKey)
ClosePiece == Piece("}\n", "", NoEnt, NoKey)
NulPiece == Piece("\\0", "", NoEnt, NoKey)       \* a hole left by a write past EOF
GarbagePiece == Piece("garbage", "", NoEnt, NoKey)

AgentPieces(agents) ==
    LET hs == SelectSeq(HandleOrder, LAMBDA h : h \in DOMAIN agents)
    IN  [i \in 1..Len(hs) |-> Piece("agent", hs[i], agents[hs[i]], NoKey)]

DevicePieces(devices) ==
    LET ds == SelectSeq(DevOrder, LAMBDA d : d \in DOMAIN devices)
    IN  [i \in 1..Len(ds) |-> Piece("device", ds[i], NoEnt, devices[ds[i]])]

Serialize(store) ==
    <<OpenPiece>> \o AgentPieces(store.agents) \o DevicePieces(store.devices)
        \o <<ClosePiece>>

\* The dict json.load builds from the entries of a text.
Collect(data) ==
    LET ai == {i \in 1..Len(data) : data[i].t = "agent"}
        di == {i \in 1..Len(data) : data[i].t = "device"}
    IN  [agents |-> [h \in {data[i].h : i \in ai} |->
                        data[CHOOSE i \in ai : data[i].h = h].rec],
         devices |-> [d \in {data[i].h : i \in di} |->
                        data[CHOOSE i \in di : data[i].h = d].dev]]

\* json.load: a text parses iff it is a complete document.
Parses(data) ==
    /\ Len(data) >= 2
    /\ data[1] = OpenPiece
    /\ data[Len(data)] = ClosePiece
    /\ \A i \in 2..(Len(data) - 1) : data[i].t \in {"agent", "device"}
    /\ Serialize(Collect(data)) = data

NoFile == [exists |-> FALSE, data |-> <<>>]
FileOf(data) == [exists |-> TRUE, data |-> data]

\* A variant that takes a store file it cannot parse for a missing one.
load_store_lenient ==
    IF storeFile.exists /\ Parses(storeFile.data)
    THEN [err |-> FALSE, store |-> Collect(storeFile.data)]
    ELSE [err |-> FALSE, store |-> EmptyStore]

\* A variant for which a missing store file is an error.
load_store_strict ==
    IF storeFile.exists /\ Parses(storeFile.data)
    THEN [err |-> FALSE, store |-> Collect(storeFile.data)]
    ELSE [err |-> TRUE, store |-> EmptyStore]

\* _load_store on the current store file.
load_store ==
    IF ~storeFile.exists THEN [err |-> FALSE, store |-> EmptyStore]
    ELSE IF Parses(storeFile.data)
         THEN [err |-> FALSE, store |-> Collect(storeFile.data)]
         ELSE [err |-> TRUE, store |-> EmptyStore]

\* write(2) of chunk at offset pos of a file holding data.
WriteAt(data, pos, chunk) ==
    LET n == IF Len(data) > pos + Len(chunk) THEN Len(data) ELSE pos + Len(chunk)
    IN  [i \in 1..n |->
            IF i > pos /\ i <= pos + Len(chunk) THEN chunk[i - pos]
            ELSE IF i <= Len(data) THEN data[i]
            ELSE NulPiece]

----------------------------------------------------------------------------
(* Processes *)

NProc == IF mode = "conc" THEN Cardinality(Procs) ELSE 1

\* Invocations a behaviour may start; a concurrent behaviour is one
\* invocation per process.
Budget ==
    IF mode = "seq" THEN MaxRuns
    ELSE IF mode = "ext" THEN MaxExtRuns
    ELSE IF mode = "use" THEN MaxUseRuns
    ELSE Cardinality(Procs)

NoSession == [sessionToken |-> NoField, expiresAt |-> NoField]
NoSig == [key |-> NoKey, msg |-> NoField]

\* argparse defaults of --token and --agent.
NoArgs == [token |-> "", agent |-> ""]

\* pc: where the process is.  store, ent, pub, cid, msg, sig, ver: the
\* locals of _agent_login and of main (pub: the publicKey of the body of the
\* device start or verify request).  fd, pos: the descriptor _save_store
\* holds (the path its inode is linked at now) and its offset.  after: where
\* _save_store returns to.  The rest is history: why the process ended, the
\* events of the invocation, the handle's token fields in the store file when
\* it started (before), the store file when _save_store was called (prev),
\* whether step 5 fell back on the in-memory record (fallback), whether
\* another invocation committed a change to other records between the
\* step-1 save and the step-5 reload (mid).  args, token: args.token and
\* args.agent as given, and main's `token`.  auth: the token of the
\* Authorization header of the last request sent (None: no header).
Idle ==
    [pc |-> "idle", cmd |-> "none", handle |-> "", store |-> EmptyStore,
     ent |-> NoEnt, pub |-> NoKey, fd |-> "none", pos |-> 0, after |-> "none",
     cid |-> NoField, msg |-> NoField, sig |-> NoSig, ver |-> NoSession,
     why |-> "", trace |-> <<>>, before |-> NoSession, prev |-> NoFile,
     fallback |-> FALSE, mid |-> FALSE, args |-> NoArgs, token |-> None,
     auth |-> None]

Stopped == {"idle", "done", "failed", "crashed"}
InSave == {"save_open", "save_write", "save_replace"}
Window == {"register", "sign", "verify", "reload"}

Event(ev, status, cid, pub, sig) ==
    [ev |-> ev, status |-> status, cid |-> cid, pub |-> pub, sig |-> sig]

\* The names and outcomes of the events of a trace, without what they carried.
Names(trace) ==
    [i \in 1..Len(trace) |-> Event(trace[i].ev, trace[i].status, NoField, NoKey, NoSig)]

\* The process has ended: its locals and descriptors are gone.  What stays
\* is the record of what the invocation was and did.
Ended(r, pc, why) ==
    [Idle EXCEPT !.pc = pc, !.why = why, !.cmd = r.cmd, !.handle = r.handle,
                 !.trace = Names(r.trace), !.before = r.before, !.ver = r.ver,
                 !.fallback = r.fallback, !.mid = r.mid, !.auth = r.auth]

\* raise SystemExit / an uncaught exception.
Fail(r, why) == Ended(r, "failed", why)

\* The two token fields of handle h in the store file.
FileTokens(file, h) ==
    IF file.exists /\ Parses(file.data) /\ h \in DOMAIN Collect(file.data).agents
    THEN [sessionToken |-> Collect(file.data).agents[h].lastSessionToken,
          expiresAt |-> Collect(file.data).agents[h].lastSessionExpiresAt]
    ELSE NoSession

\* Everything of a store but the agent record of handle h.
Others(store, h) ==
    [agents |-> [x \in (DOMAIN store.agents) \ {h} |-> store.agents[x]],
     devices |-> store.devices]

\* What a reader gets from a file: the parsed store, or nothing.
Readable(file) ==
    IF file.exists /\ Parses(file.data) THEN Collect(file.data) ELSE EmptyStore

\* A new invocation takes the first free process slot (the slots are
\* interchangeable).
CanStart(p) ==
    /\ p \in 1..NProc
    /\ proc[p].pc \in Stopped
    /\ \A q \in 1..(p - 1) : proc[q].pc \notin Stopped
    /\ runs < Budget

\* A fresh invocation of command cmd for handle h.
Begin(cmd, h) ==
    [Idle EXCEPT !.cmd = cmd, !.handle = h,
                 !.before = IF cmd = "agent-auth" THEN FileTokens(storeFile, h)
                            ELSE NoSession]

\* The call _save_store(store) from r, returning to pc `after`.
CallSave(r, store, after) ==
    [r EXCEPT !.pc = "save_open", !.after = after, !.store = store,
              !.prev = storeFile]

----------------------------------------------------------------------------
(* _ensure_agent_keypair(store, handle); k is the next draw of the random  *)
(* source.  Returns the mutated store, the record and whether it generated.*)

\* A variant that generates whether or not the record holds a keypair.
ensure_agent_keypair_regen(store, handle, k) ==
    LET ent == GetEnt(store.agents, handle)
        new == [ent EXCEPT !.publicKeyB64 = b64(PublicKeyRaw(k)),
                           !.privateKeyPkcs8B64 = b64(PrivateKeyDer(k))]
    IN  [store |-> [store EXCEPT !.agents = SetAt(@, handle, new)],
         ent |-> new, generated |-> TRUE]

ensure_agent_keypair(store, handle, k) ==
    LET ent == GetEnt(store.agents, handle)
    IN  IF ent.publicKeyB64 # NoKey /\ ent.privateKeyPkcs8B64 # NoKey
        THEN [store |-> [store EXCEPT !.agents = SetAt(@, handle, ent)],
              ent |-> ent, generated |-> FALSE]
        ELSE LET new == [ent EXCEPT !.publicKeyB64 = b64(PublicKeyRaw(k)),
                                    !.privateKeyPkcs8B64 = b64(PrivateKeyDer(k))]
             IN  [store |-> [store EXCEPT !.agents = SetAt(@, handle, new)],
                  ent |-> new, generated |-> TRUE]

\* serialization.load_der_private_key(der): the private key object.
load_der_private_key(der) == der

\* priv.sign(msg.encode("utf-8"))
Sign(priv, msg) == [key |-> priv, msg |-> msg]

----------------------------------------------------------------------------
(* _save_store(store): open(tmp, "w"), write, close, os.replace(tmp, p)    *)

\* A variant that opens and truncates the store file itself.
save_store_open_inplace(p) ==
    /\ proc[p].pc = "save_open"
    /\ storeFile' = FileOf(<<>>)
    /\ proc' = [proc EXCEPT ![p] = [@ EXCEPT !.pc = "save_write", !.fd = "store",
                                             !.pos = 0]]
    /\ UNCHANGED <<mode, tmpFile, keysMade, runs, edits, verifyPubs, startReqs>>

\* open(tmp, "w"): O_CREAT | O_TRUNC on the one shared temp path.
save_store_open(p) ==
    /\ proc[p].pc = "save_open"
    /\ tmpFile' = FileOf(<<>>)
    /\ proc' = [proc EXCEPT ![p] = [@ EXCEPT !.pc = "save_write", !.fd = "tmp",
                                             !.pos = 0]]
    /\ UNCHANGED <<mode, storeFile, keysMade, runs, edits, verifyPubs, startReqs>>

\* One write(2) of the next n pieces through the open descriptor; the last
\* one is the flush of close().  The descriptor follows its inode: fd names
\* the path the inode is linked at now.
save_store_write(p, n) ==
    LET bytes == Serialize(proc[p].store)
        pos == proc[p].pos
        chunk == SubSeq(bytes, pos + 1, pos + n)
        last == pos + n = Len(bytes)
    IN  /\ proc[p].pc = "save_write"
        /\ n >= 1
        /\ pos + n <= Len(bytes)
        /\ tmpFile' = IF proc[p].fd = "tmp"
                      THEN FileOf(WriteAt(tmpFile.data, pos, chunk)) ELSE tmpFile
        /\ storeFile' = IF proc[p].fd = "store"
                        THEN FileOf(WriteAt(storeFile.data, pos, chunk)) ELSE storeFile
        /\ proc' = [proc EXCEPT ![p] =
                        [@ EXCEPT !.pos = pos + n,
                                  !.pc = IF last THEN "save_replace" ELSE "save_write",
                                  !.fd = IF last THEN "none" ELSE @]]
        /\ UNCHANGED <<mode, keysMade, runs, edits, verifyPubs, startReqs>>

\* os.replace(tmp, p): FileNotFoundError when tmp is gone; otherwise the
\* inode at tmp becomes the store file and the old store inode is unlinked.
save_store_replace(p) ==
    /\ proc[p].pc = "save_replace"
    /\ IF tmpFile.exists
       THEN /\ storeFile' = tmpFile
            /\ tmpFile' = NoFile
            /\ proc' = [q \in Procs |->
                  IF q = p
                  THEN LET r == [proc[p] EXCEPT
                                   !.pc = proc[p].after, !.after = "none", !.pos = 0,
                                   !.store = EmptyStore, !.prev = NoFile,
                                   !.trace = Append(@, Event("save", "ok", NoField, NoKey, NoSig))]
                       IN  IF proc[p].after = "finish" THEN Ended(r, "done", "") ELSE r
                  ELSE LET moved == IF proc[q].fd = "tmp" THEN "store"
                                    ELSE IF proc[q].fd = "store" THEN "orphan"
                                    ELSE proc[q].fd
                           changed == /\ proc[q].cmd = "agent-auth"
                                      /\ proc[q].pc \in Window
                                      /\ Parses(tmpFile.data)
                                      /\ Others(Collect(tmpFile.data), proc[q].handle)
                                           # Others(Readable(storeFile), proc[q].handle)
                       IN  [proc[q] EXCEPT !.fd = moved, !.mid = @ \/ changed]]
       ELSE /\ proc' = [proc EXCEPT ![p] = Fail(@, "replace_enoent")]
            /\ UNCHANGED <<storeFile, tmpFile>>
    /\ UNCHANGED <<mode, keysMade, runs, edits, verifyPubs, startReqs>>

----------------------------------------------------------------------------
(* _req: the outcomes of one HTTP exchange *)

Statuses == {"ok", "http_error", "transport"}

\* A variant that returns the (empty) body of an error answer instead of
\* raising.
req_swallow(status, body) ==
    IF status = "transport" THEN [raised |-> TRUE, why |-> "transport", out |-> body]
    ELSE [raised |-> FALSE, why |-> "", out |-> body]

\* urlopen + json.loads: the body of a 2xx answer is returned; HTTPError
\* becomes SystemExit("HTTP ..."); a connection failure or timeout
\* (URLError), like a 2xx body that is not JSON, is not caught and ends the
\* process as well ("transport").
req(status, body) ==
    IF status = "ok" THEN [raised |-> FALSE, why |-> "", out |-> body]
    ELSE IF status = "http_error" THEN [raised |-> TRUE, why |-> "http", out |-> body]
    ELSE [raised |-> TRUE, why |-> "transport", out |-> body]

\* Bodies of a 2xx answer of /v1/agent/register.
RegisterBodies ==
    [challengeId : {NoField, ""} \cup ChallengeIds,
     messageToSign : {NoField, ""} \cup Messages]

\* Bodies of a 2xx answer of /v1/agent/verify.
VerifyBodies ==
    [sessionToken : {NoField} \cup SessionTokens,
     expiresAt : {NoField} \cup Expiries]

\* What the server can answer to a request: any status; any body with a 2xx
\* (the body of an error answer is only printed, written here as `none`).
Answers(bodies, none) ==
    {a \in [status : Statuses, body : bodies] : a.status # "ok" => a.body = none}

\* d.get(k, "")
GetOrEmpty(v) == IF v = NoField THEN "" ELSE v

----------------------------------------------------------------------------
(* _agent_login(base, handle) *)

\* A variant that goes to the network without saving the store first.
agent_login_load_nosave(p, h) ==
    /\ CanStart(p)
    /\ runs' = runs + 1
    /\ LET r == load_store
           e == ensure_agent_keypair(r.store, h, keysMade + 1)
           b == Begin("agent-auth", h)
       IN  IF r.err
           THEN /\ proc' = [proc EXCEPT ![p] = Fail(b, "store_parse")]
                /\ UNCHANGED keysMade
           ELSE /\ proc' = [proc EXCEPT ![p] =
                              [b EXCEPT !.ent = e.ent, !.pc = "register",
                                        !.trace = <<Event("save", "ok", NoField, NoKey, NoSig)>>]]
                /\ keysMade' = IF e.generated THEN keysMade + 1 ELSE keysMade
    /\ UNCHANGED <<mode, storeFile, tmpFile, edits, verifyPubs, startReqs>>

\* store = _load_store(); ent = _ensure_agent_keypair(store, handle);
\* then the call _save_store(store).
agent_login_load(p, h) ==
    /\ CanStart(p)
    /\ runs' = runs + 1
    /\ LET r == load_store
           e == ensure_agent_keypair(r.store, h, keysMade + 1)
           b == Begin("agent-auth", h)
       IN  IF r.err
           THEN /\ proc' = [proc EXCEPT ![p] = Fail(b, "store_parse")]
                /\ UNCHANGED keysMade
           ELSE /\ proc' = [proc EXCEPT ![p] =
                              CallSave([b EXCEPT !.ent = e.ent], e.store, "register")]
                /\ keysMade' = IF e.generated THEN keysMade + 1 ELSE keysMade
    /\ UNCHANGED <<mode, storeFile, tmpFile, edits, verifyPubs, startReqs>>

\* A variant that checks messageToSign only.
agent_login_register_lenient(p, a) ==
    /\ proc[p].pc = "register"
    /\ LET reg == req(a.status, a.body)
           sent == [proc[p] EXCEPT
                      !.trace = Append(@, Event("register", a.status, a.body.challengeId,
                                                NoKey, [key |-> NoKey,
                                                        msg |-> a.body.messageToSign]))]
           msg == reg.out.messageToSign
           cid == reg.out.challengeId
       IN  proc' = [proc EXCEPT ![p] =
              IF reg.raised THEN Fail(sent, reg.why)
              ELSE IF ~Truthy(msg) THEN Fail(sent, "register_malformed")
              ELSE [sent EXCEPT !.pc = "sign", !.cid = cid, !.msg = msg]]
    /\ UNCHANGED <<mode, storeFile, tmpFile, keysMade, runs, edits, verifyPubs, startReqs>>

\* reg = _req(.../v1/agent/register, body={"handle": handle}) and the check
\* of messageToSign / challengeId.  The event records what was answered.
agent_login_register(p, a) ==
    /\ proc[p].pc = "register"
    /\ LET reg == req(a.status, a.body)
           sent == [proc[p] EXCEPT
                      !.trace = Append(@, Event("register", a.status, a.body.challengeId,
                                                NoKey, [key |-> NoKey,
                                                        msg |-> a.body.messageToSign]))]
           msg == reg.out.messageToSign
           cid == reg.out.challengeId
       IN  proc' = [proc EXCEPT ![p] =
              IF reg.raised THEN Fail(sent, reg.why)
              ELSE IF ~Truthy(msg) \/ ~Truthy(cid) THEN Fail(sent, "register_malformed")
              ELSE [sent EXCEPT !.pc = "sign", !.cid = cid, !.msg = msg]]
    /\ UNCHANGED <<mode, storeFile, tmpFile, keysMade, runs, edits, verifyPubs, startReqs>>

\* priv = load_der_private_key(_b64d(ent[...])); sig = priv.sign(msg)
agent_login_sign(p) ==
    /\ proc[p].pc = "sign"
    /\ LET priv == load_der_private_key(b64d(proc[p].ent.privateKeyPkcs8B64))
           sig == Sign(priv, proc[p].msg)
       IN  proc' = [proc EXCEPT ![p] =
              [@ EXCEPT !.pc = "verify", !.sig = sig,
                        !.trace = Append(@, Event("sign", "ok", NoField, NoKey, sig))]]
    /\ UNCHANGED <<mode, storeFile, tmpFile, keysMade, runs, edits, verifyPubs, startReqs>>

\* A variant that sends a fixed challenge id instead of the answered one.
agent_login_verify_stale(p, a) ==
    /\ proc[p].pc = "verify"
    /\ LET ver == req(a.status, a.body)
           pub == proc[p].ent.publicKeyB64
           sent == [proc[p] EXCEPT
                      !.pub = pub,
                      !.trace = Append(@, Event("verify", a.status, "c1", pub,
                                                proc[p].sig))]
       IN  /\ proc' = [proc EXCEPT ![p] =
                 IF ver.raised THEN Fail(sent, ver.why)
                 ELSE [sent EXCEPT !.pc = "reload", !.ver = ver.out]]
           /\ verifyPubs' = [verifyPubs EXCEPT ![proc[p].handle] = @ \cup {pub}]
    /\ UNCHANGED <<mode, storeFile, tmpFile, keysMade, runs, edits, startReqs>>

\* ver = _req(.../v1/agent/verify, body={challengeId, publicKey, signature})
\* The event records what was sent.
agent_login_verify(p, a) ==
    /\ proc[p].pc = "verify"
    /\ LET ver == req(a.status, a.body)
           pub == proc[p].ent.publicKeyB64
           sent == [proc[p] EXCEPT
                      !.pub = pub,
                      !.trace = Append(@, Event("verify", a.status, proc[p].cid, pub,
                                                proc[p].sig))]
       IN  /\ proc' = [proc EXCEPT ![p] =
                 IF ver.raised THEN Fail(sent, ver.why)
                 ELSE [sent EXCEPT !.pc = "reload", !.ver = ver.out]]
           /\ verifyPubs' = [verifyPubs EXCEPT ![proc[p].handle] = @ \cup {pub}]
    /\ UNCHANGED <<mode, storeFile, tmpFile, keysMade, runs, edits, startReqs>>

\* A variant that saves a store holding the handle's record only.
agent_login_reload_own_only(p) ==
    /\ proc[p].pc = "reload"
    /\ LET r == load_store
           h == proc[p].handle
           found == GetEnt(r.store.agents, h)
           ent == IF found # NoEnt THEN found ELSE proc[p].ent
           new == [ent EXCEPT
                     !.lastSessionToken = GetOrEmpty(proc[p].ver.sessionToken),
                     !.lastSessionExpiresAt = GetOrEmpty(proc[p].ver.expiresAt)]
           local == [proc[p] EXCEPT !.ent = new, !.cid = NoField, !.msg = NoField,
                                    !.sig = NoSig, !.trace = Names(@),
                                    !.fallback = (found = NoEnt)]
       IN  proc' = [proc EXCEPT ![p] =
              IF r.err THEN Fail(@, "store_parse")
              ELSE CallSave(local, [EmptyStore EXCEPT !.agents = SetAt(@, h, new)],
                            "finish")]
    /\ UNCHANGED <<mode, storeFile, tmpFile, keysMade, runs, edits, verifyPubs, startReqs>>

\* A variant that takes the reloaded record even when there is none.
agent_login_reload_nofallback(p) ==
    /\ proc[p].pc = "reload"
    /\ LET r == load_store
           h == proc[p].handle
           found == GetEnt(r.store.agents, h)
           new == [found EXCEPT
                     !.lastSessionToken = GetOrEmpty(proc[p].ver.sessionToken),
                     !.lastSessionExpiresAt = GetOrEmpty(proc[p].ver.expiresAt)]
           local == [proc[p] EXCEPT !.ent = new, !.cid = NoField, !.msg = NoField,
                                    !.sig = NoSig, !.trace = Names(@),
                                    !.fallback = (found = NoEnt)]
       IN  proc' = [proc EXCEPT ![p] =
              IF r.err THEN Fail(@, "store_parse")
              ELSE CallSave(local, [r.store EXCEPT !.agents = SetAt(@, h, new)],
                            "finish")]
    /\ UNCHANGED <<mode, storeFile, tmpFile, keysMade, runs, edits, verifyPubs, startReqs>>

\* store = _load_store(); ent = store["agents"].get(handle) or ent; set the
\* two token fields; store["agents"][handle] = ent; then _save_store(store).
agent_login_reload(p) ==
    /\ proc[p].pc = "reload"
    /\ LET r == load_store
           h == proc[p].handle
           found == GetEnt(r.store.agents, h)
           ent == IF found # NoEnt THEN found ELSE proc[p].ent
           new == [ent EXCEPT
                     !.lastSessionToken = GetOrEmpty(proc[p].ver.sessionToken),
                     !.lastSessionExpiresAt = GetOrEmpty(proc[p].ver.expiresAt)]
           local == [proc[p] EXCEPT !.ent = new, !.cid = NoField, !.msg = NoField,
                                    !.sig = NoSig, !.trace = Names(@),
                                    !.fallback = (found = NoEnt)]
       IN  proc' = [proc EXCEPT ![p] =
              IF r.err THEN Fail(@, "store_parse")
              ELSE CallSave(local, [r.store EXCEPT !.agents = SetAt(@, h, new)],
                            "finish")]
    /\ UNCHANGED <<mode, storeFile, tmpFile, keysMade, runs, edits, verifyPubs, startReqs>>

----------------------------------------------------------------------------
(* main: device-start *)

\* A variant that sends a generated key without saving it.
device_start_load_nosave(p, d) ==
    /\ CanStart(p)
    /\ runs' = runs + 1
    /\ LET r == load_store
           old == GetKey(r.store.devices, d)
           new == b64(Urandom(keysMade + 1))
           b == Begin("device-start", d)
       IN  IF r.err
           THEN /\ proc' = [proc EXCEPT ![p] = Fail(b, "store_parse")]
                /\ UNCHANGED keysMade
           ELSE IF old # NoKey
           THEN /\ proc' = [proc EXCEPT ![p] =
                              [b EXCEPT !.pc = "device_request", !.pub = old]]
                /\ UNCHANGED keysMade
           ELSE /\ proc' = [proc EXCEPT ![p] =
                              [b EXCEPT !.pc = "device_request", !.pub = new]]
                /\ keysMade' = keysMade + 1
    /\ UNCHANGED <<mode, storeFile, tmpFile, edits, verifyPubs, startReqs>>

\* store = _load_store(); pub = (devices.get(key) or "").strip(); generate
\* and save when there is none.
device_start_load(p, d) ==
    /\ CanStart(p)
    /\ runs' = runs + 1
    /\ LET r == load_store
           old == GetKey(r.store.devices, d)
           new == b64(Urandom(keysMade + 1))
           b == Begin("device-start", d)
       IN  IF r.err
           THEN /\ proc' = [proc EXCEPT ![p] = Fail(b, "store_parse")]
                /\ UNCHANGED keysMade
           ELSE IF old # NoKey
           THEN /\ proc' = [proc EXCEPT ![p] =
                              [b EXCEPT !.pc = "device_request", !.pub = old]]
                /\ UNCHANGED keysMade
           ELSE /\ proc' = [proc EXCEPT ![p] =
                              CallSave([b EXCEPT !.pub = new],
                                       [r.store EXCEPT !.devices = SetAt(@, d, new)],
                                       "device_request")]
                /\ keysMade' = keysMade + 1
    /\ UNCHANGED <<mode, storeFile, tmpFile, edits, verifyPubs, startReqs>>

\* out = _req(.../v1/device/start, body={"publicKey": pub, ...})
device_start_request(p, status) ==
    /\ proc[p].pc = "device_request"
    /\ LET out == req(status, NoSession)
           sent == [proc[p] EXCEPT
                      !.trace = Append(@, Event("device_start", status, NoField,
                                                proc[p].pub, NoSig))]
       IN  proc' = [proc EXCEPT ![p] =
              IF out.raised THEN Fail(sent, out.why) ELSE Ended(sent, "done", "")]
    /\ startReqs' = [startReqs EXCEPT ![proc[p].handle] =
                        @ \cup {[pub |-> proc[p].pub, raised |-> req(status, NoSession).raised]}]
    /\ UNCHANGED <<mode, storeFile, tmpFile, keysMade, runs, edits, verifyPubs>>

----------------------------------------------------------------------------
(* main: token resolution, the commands that only talk to the service, and *)
(* the lookup of the handle that is displayed with a command's result.     *)
(* agent-auth and device-start are run as in the module docstring, without *)
(* --token and --agent: their `token` is None and they end at their print. *)

ExplicitTokens == {"", " ", " tok-X "}       \* values of --token
AgentArgs == {"", " alice "}                 \* values of --agent

\* One command of each kind: no token used and handle displayed (healthz,
\* leaderboard); token required and no display (me); no token used and no
\* display (device-poll); token required and handle displayed (dice, slots,
\* poker-*).
UseCmds == {"healthz", "me", "device-poll", "poker-tables"}

\* The commands that raise SystemExit("--token is required ...") without one
\* and pass token=token to _req.
TokenCmds == {"me", "poker-tables"}

\* args.cmd not in ("me", "device-poll")
ShowsHandle(cmd) == cmd \notin {"me", "device-poll"}

\* A variant that gives no token when the record's lastSessionExpiresAt is
\* empty, absent or in the past.
agent_token_from_store_unexpired(store, handle) ==
    LET ent == GetEnt(store.agents, handle)
        tok == Strip(IF Truthy(ent.lastSessionToken) THEN ent.lastSessionToken ELSE "")
    IN  IF tok # "" /\ ent.lastSessionExpiresAt \in Expiries THEN tok ELSE None

\* _agent_token_from_store(handle), on the store its _load_store returned.
agent_token_from_store(store, handle) ==
    LET ent == GetEnt(store.agents, handle)
        tok == Strip(IF Truthy(ent.lastSessionToken) THEN ent.lastSessionToken ELSE "")
    IN  IF tok # "" THEN tok ELSE None

\* A variant that writes the store it loaded back (creating the file, and a
\* record for the handle, when there is none).
main_resolve_setdefault(p, cmd, t, a) ==
    /\ CanStart(p)
    /\ runs' = runs + 1
    /\ LET explicit == IF Strip(t) # "" THEN Strip(t) ELSE None
           b == [Begin(cmd, "") EXCEPT !.args = [token |-> t, agent |-> a]]
           r == load_store
           ent == GetEnt(r.store.agents, Strip(a))
       IN  IF explicit # None \/ Strip(a) = ""
           THEN /\ proc' = [proc EXCEPT ![p] =
                              [b EXCEPT !.pc = "main_request", !.token = explicit]]
                /\ UNCHANGED storeFile
           ELSE IF r.err
           THEN /\ proc' = [proc EXCEPT ![p] = Fail(b, "store_parse")]
                /\ UNCHANGED storeFile
           ELSE /\ proc' = [proc EXCEPT ![p] =
                              [b EXCEPT !.pc = "main_request",
                                        !.token = agent_token_from_store(r.store, Strip(a))]]
                /\ storeFile' = FileOf(Serialize(
                       [r.store EXCEPT !.agents = SetAt(@, Strip(a), ent)]))
    /\ UNCHANGED <<mode, tmpFile, keysMade, edits, verifyPubs, startReqs>>

\* A variant that prefers the stored token of the agent to the explicit one.
main_resolve_stored_first(p, cmd, t, a) ==
    /\ CanStart(p)
    /\ runs' = runs + 1
    /\ LET explicit == IF Strip(t) # "" THEN Strip(t) ELSE None
           b == [Begin(cmd, "") EXCEPT !.args = [token |-> t, agent |-> a]]
           r == load_store
           stored == agent_token_from_store(r.store, Strip(a))
       IN  proc' = [proc EXCEPT ![p] =
              IF Strip(a) = ""
              THEN [b EXCEPT !.pc = "main_request", !.token = explicit]
              ELSE IF r.err THEN Fail(b, "store_parse")
              ELSE [b EXCEPT !.pc = "main_request",
                             !.token = IF stored # None THEN stored ELSE explicit]]
    /\ UNCHANGED <<mode, storeFile, tmpFile, keysMade, edits, verifyPubs, startReqs>>

\* token = args.token.strip() or None; if not token and args.agent.strip():
\* token = _agent_token_from_store(args.agent.strip())
main_resolve(p, cmd, t, a) ==
    /\ CanStart(p)
    /\ runs' = runs + 1
    /\ LET explicit == IF Strip(t) # "" THEN Strip(t) ELSE None
           b == [Begin(cmd, "") EXCEPT !.args = [token |-> t, agent |-> a]]
           r == load_store
       IN  proc' = [proc EXCEPT ![p] =
              IF explicit # None \/ Strip(a) = ""
              THEN [b EXCEPT !.pc = "main_request", !.token = explicit]
              ELSE IF r.err THEN Fail(b, "store_parse")
              ELSE [b EXCEPT !.pc = "main_request",
                             !.token = agent_token_from_store(r.store, Strip(a))]]
    /\ UNCHANGED <<mode, storeFile, tmpFile, keysMade, edits, verifyPubs, startReqs>>

\* except Exception: URLError and ValueError are caught; the SystemExit that
\* _req raises for an HTTPError is a BaseException only and is not.
except_Exception(why) == why = "transport"

\* The dispatch on args.cmd: `if not token: raise SystemExit` for the
\* commands that need one, then out = _req(..., token=token) (token=None for
\* the others).
main_request(p, status) ==
    /\ proc[p].pc = "main_request"
    /\ LET r == proc[p]
           out == req(status, NoSession)
           sent == [r EXCEPT !.args = NoArgs,
                             !.auth = IF r.cmd \in TokenCmds THEN r.token ELSE None,
                             !.trace = Append(@, Event("request", status, NoField,
                                                       NoKey, NoSig))]
       IN  proc' = [proc EXCEPT ![p] =
              IF r.cmd \in TokenCmds /\ r.token = None THEN Fail(r, "token_required")
              ELSE IF out.raised THEN Fail(sent, out.why)
              ELSE IF r.token # None /\ ShowsHandle(r.cmd)
                   THEN [sent EXCEPT !.pc = "me_lookup"]
              ELSE Ended(sent, "done", "")]
    /\ UNCHANGED <<mode, storeFile, tmpFile, keysMade, runs, edits, verifyPubs, startReqs>>

\* try: me = _req(base, "/v1/me", token=token) ... except Exception: pass;
\* then print(json.dumps(out)) and return 0.
main_me_lookup(p, status) ==
    /\ proc[p].pc = "me_lookup"
    /\ LET r == proc[p]
           me == req(status, NoSession)
           sent == [r EXCEPT !.auth = r.token,
                             !.trace = Append(@, Event("me_lookup", status, NoField,
                                                       NoKey, NoSig))]
       IN  proc' = [proc EXCEPT ![p] =
              IF me.raised /\ ~except_Exception(me.why) THEN Fail(sent, me.why)
              ELSE Ended(sent, "done", "")]
    /\ UNCHANGED <<mode, storeFile, tmpFile, keysMade, runs, edits, verifyPubs, startReqs>>

----------------------------------------------------------------------------
(* Environment *)

\* The process is killed between two of its system calls.
Crash(p) ==
    /\ proc[p].pc \notin Stopped
    /\ proc' = [proc EXCEPT ![p] =
          IF @.pc \in InSave
          THEN [Ended(@, "crashed", "in_save") EXCEPT !.store = proc[p].store,
                                                      !.prev = proc[p].prev]
          ELSE Ended(@, "crashed", "")]
    /\ UNCHANGED <<mode, storeFile, tmpFile, keysMade, runs, edits, verifyPubs, startReqs>>

\* Something other than this program replaces the store file in one step
\* while an invocation runs: it removes one agent record, or the file.
ExternalEdit ==
    /\ mode = "ext"
    /\ edits < MaxEdits
    /\ \E p \in Procs : proc[p].pc \notin Stopped
    /\ storeFile.exists /\ Parses(storeFile.data)
    /\ LET s == Collect(storeFile.data)
       IN  \/ storeFile' = NoFile
           \/ \E h \in DOMAIN s.agents :
                storeFile' = FileOf(Serialize(
                    [s EXCEPT !.agents = [x \in (DOMAIN s.agents) \ {h} |-> s.agents[x]]]))
    /\ edits' = edits + 1
    /\ UNCHANGED <<mode, tmpFile, proc, keysMade, runs, verifyPubs, startReqs>>

----------------------------------------------------------------------------
(* Specifications *)

MaxPieces == 2 + Cardinality(Handles) + Cardinality(DevHandles)

NoRegister == [challengeId |-> NoField, messageToSign |-> NoField]

InitFiles == {NoFile, FileOf(<<GarbagePiece>>)}

InitCommon ==
    /\ storeFile \in InitFiles
    /\ tmpFile = NoFile
    /\ proc = [p \in Procs |-> Idle]
    /\ keysMade = 0
    /\ runs = 0
    /\ edits = 0
    /\ verifyPubs = [h \in Handles |-> {}]
    /\ startReqs = [d \in DevHandles |-> {}]

Init == mode = "seq" /\ InitCommon
InitExt == mode = "ext" /\ InitCommon
InitConc == mode = "conc" /\ InitCommon
InitUse == mode = "use" /\ InitCommon

Next ==
    \/ \E p \in Procs, h \in Handles : agent_login_load(p, h)
    \/ \E p \in Procs, a \in Answers(RegisterBodies, NoRegister) : agent_login_register(p, a)
    \/ \E p \in Procs : agent_login_sign(p)
    \/ \E p \in Procs, a \in Answers(VerifyBodies, NoSession) : agent_login_verify(p, a)
    \/ \E p \in Procs : agent_login_reload(p)
    \/ \E p \in Procs, d \in DevHandles : device_start_load(p, d)
    \/ \E p \in Procs, s \in Statuses : device_start_request(p, s)
    \/ \E p \in Procs : save_store_open(p)
    \/ \E p \in Procs, n \in 1..MaxPieces : save_store_write(p, n)
    \/ \E p \in Procs : save_store_replace(p)
    \/ \E p \in Procs : Crash(p)

NextExt == Next \/ ExternalEdit

NextUse ==
    \/ Next
    \/ \E p \in Procs, cmd \in UseCmds, t \in ExplicitTokens, a \in AgentArgs :
            main_resolve(p, cmd, t, a)
    \/ \E p \in Procs, s \in Statuses : main_request(p, s)
    \/ \E p \in Procs, s \in Statuses : main_me_lookup(p, s)

\* Invocations run to completion (or are killed) one after the other.
Spec == Init /\ [][Next]_vars

\* The same, with external edits of the store file between the steps.
SpecExt == InitExt /\ [][NextExt]_vars

\* Two invocations at once.
SpecConc == InitConc /\ [][Next]_vars

\* Invocations of all the commands, one after the other.
SpecUse == InitUse /\ [][NextUse]_vars

----------------------------------------------------------------------------
(* Properties *)

\* The two key fields of handle h in a file, as a reader gets them.
FileKeys(file, h) ==
    LET ent == GetEnt(Readable(file).agents, h)
    IN  <<ent.publicKeyB64, ent.privateKeyPkcs8B64>>

HasKeypair(file, h) == FileKeys(file, h)[1] # NoKey /\ FileKeys(file, h)[2] # NoKey

\* The events of process p with name ev.
Sent(p, ev) == {i \in 1..Len(proc[p].trace) : proc[p].trace[i].ev = ev}

\* C1. Keypair immutability over run-to-completion invocations: once the
\* store holds a public and a private key for a handle, no step changes
\* either; and an _ensure_agent_keypair on a store that holds them returns
\* exactly them and draws nothing from the random source.
C1_KeypairImmutable ==
    [][/\ \A h \in Handles :
            HasKeypair(storeFile, h) => FileKeys(storeFile', h) = FileKeys(storeFile, h)
       /\ \A p \in Procs :
            (/\ proc[p].pc \in Stopped
             /\ proc'[p].pc = "save_open"
             /\ proc'[p].cmd = "agent-auth"
             /\ HasKeypair(storeFile, proc'[p].handle))
            => /\ keysMade' = keysMade
               /\ <<proc'[p].ent.publicKeyB64, proc'[p].ent.privateKeyPkcs8B64>>
                    = FileKeys(storeFile, proc'[p].handle)
               /\ proc'[p].store = Readable(storeFile)]_vars

\* A second agent-auth for a handle has ensured and saved, and the only key
\* ever generated is the first invocation's.
C1_Witness ==
    \E p \in Procs :
        /\ proc[p].cmd = "agent-auth"
        /\ proc[p].pc = "register"
        /\ runs = 2
        /\ keysMade = 1
        /\ HasKeypair(storeFile, proc[p].handle)

\* C2. Keypair durable before the network: from the moment the register
\* request is sent, and after the invocation has ended however it ended, the
\* store file holds the handle's keypair (the one the invocation signs
\* with); every public key ever sent to verify for a handle is the one in
\* the store file, so a retry sends the same one.
C2_KeypairDurableBeforeNetwork ==
    /\ \A p \in Procs :
         (proc[p].cmd = "agent-auth" /\ (proc[p].pc = "register" \/ Sent(p, "register") # {}))
         => /\ HasKeypair(storeFile, proc[p].handle)
            /\ proc[p].pc \notin Stopped
                 => FileKeys(storeFile, proc[p].handle)
                      = <<proc[p].ent.publicKeyB64, proc[p].ent.privateKeyPkcs8B64>>
    /\ \A h \in Handles : \A k \in verifyPubs[h] : k = FileKeys(storeFile, h)[1]

\* A retry: the second invocation for a handle whose first one saved the
\* keypair but never a session has sent its verify request.
C2_Witness ==
    \E p \in Procs :
        /\ proc[p].cmd = "agent-auth"
        /\ proc[p].pc = "reload"
        /\ runs = 2
        /\ keysMade = 1
        /\ FileTokens(storeFile, proc[p].handle) = NoSession
        /\ verifyPubs[proc[p].handle] = {FileKeys(storeFile, proc[p].handle)[1]}

Protocol == <<"save", "register", "sign", "verify", "save">>

IsPrefix(s, t) == Len(s) <= Len(t) /\ \A i \in 1..Len(s) : s[i] = t[i]

EvNames(p) == [i \in 1..Len(proc[p].trace) |-> proc[p].trace[i].ev]

\* C3. Protocol ordering: the events of one login are a prefix of save,
\* register, sign, verify, save (so no request is sent twice); verify is
\* sent only after a 2xx register answer with both fields, and carries that
\* answer's challengeId, the signature of that answer's message, and the
\* public key of the keypair that signed.
C3_ProtocolOrder ==
    \A p \in Procs :
        proc[p].cmd = "agent-auth"
        => /\ IsPrefix(EvNames(p), Protocol)
           /\ Len(proc[p].trace) >= 4 => proc[p].trace[2].status = "ok"
           /\ proc[p].pc = "reload"
                => LET reg == proc[p].trace[2]
                       sg == proc[p].trace[3]
                       v == proc[p].trace[4]
                   IN  /\ Truthy(reg.cid) /\ Truthy(reg.sig.msg)
                       /\ v.cid = reg.cid
                       /\ sg.sig.msg = reg.sig.msg
                       /\ v.sig = sg.sig
                       /\ sg.sig.key = PrivateKeyDer(sg.sig.key.id)
                       /\ v.pub = b64(PublicKeyRaw(sg.sig.key.id))

\* A login ran through all five events.
C3_Witness ==
    \E p \in Procs :
        proc[p].cmd = "agent-auth" /\ proc[p].pc = "done" /\ EvNames(p) = Protocol

\* C4. Malformed challenge aborts early: a login goes on to sign only after
\* a register answer with a non-empty challengeId and messageToSign; a login
\* that ended on a malformed answer has neither signed nor sent verify, and
\* the handle's token fields in the store file are what they were when it
\* started.
C4_MalformedChallengeAborts ==
    \A p \in Procs :
        proc[p].cmd = "agent-auth"
        => /\ proc[p].pc \in {"sign", "verify", "reload"}
                => Truthy(proc[p].trace[2].cid) /\ Truthy(proc[p].trace[2].sig.msg)
           /\ (proc[p].pc = "failed" /\ proc[p].why = "register_malformed")
                => /\ EvNames(p) = <<"save", "register">>
                   /\ FileTokens(storeFile, proc[p].handle) = proc[p].before

\* A login of a handle with a cached session ended on a malformed challenge.
C4_Witness ==
    \E p \in Procs :
        /\ proc[p].cmd = "agent-auth"
        /\ proc[p].pc = "failed"
        /\ proc[p].why = "register_malformed"
        /\ proc[p].before.sessionToken \in SessionTokens

\* The login of process p got a 2xx answer to its verify request.
Verified(p) ==
    /\ proc[p].cmd = "agent-auth"
    /\ Len(proc[p].trace) >= 4
    /\ proc[p].trace[4].ev = "verify"
    /\ proc[p].trace[4].status = "ok"

\* C5. Missing fields in the verify answer are fatal: a login whose 2xx
\* verify answer lacks sessionToken or expiresAt gets no further than having
\* received it (it fails, unless it is killed), and the handle's token fields
\* in the store file stay what they were when it started.
C5_MissingVerifyFieldsFatal ==
    \A p \in Procs :
        (/\ Verified(p)
         /\ proc[p].ver.sessionToken = NoField \/ proc[p].ver.expiresAt = NoField)
        => /\ proc[p].pc \in {"reload", "failed", "crashed"}
           /\ FileTokens(storeFile, proc[p].handle) = proc[p].before

\* C6. Failed authentication leaves the cached session untouched: when a
\* login ends on a non-2xx answer the handle's token fields in the store
\* file are what they were when it started; and a step changes a handle's
\* token fields only if it is the final rename of a login for that handle
\* whose register and verify requests were both answered 2xx.
C6_FailedAuthKeepsSession ==
    [][/\ \A p \in Procs :
            (proc'[p].cmd = "agent-auth" /\ proc'[p].pc = "failed" /\ proc'[p].why = "http")
            => FileTokens(storeFile', proc'[p].handle) = proc'[p].before
       /\ \A h \in Handles :
            FileTokens(storeFile', h) # FileTokens(storeFile, h)
            => \E p \in Procs :
                  /\ Verified(p)
                  /\ proc[p].trace[2].status = "ok"
                  /\ proc[p].handle = h
                  /\ proc[p].pc = "save_replace"
                  /\ proc[p].after = "finish"
                  /\ proc'[p].pc = "done"]_vars

\* A login of a handle with a cached session ended on a non-2xx answer to
\* its verify request.
C6_Witness ==
    \E p \in Procs :
        /\ proc[p].cmd = "agent-auth"
        /\ proc[p].pc = "failed"
        /\ proc[p].why = "http"
        /\ EvNames(p) = <<"save", "register", "sign", "verify">>
        /\ proc[p].before.sessionToken \in SessionTokens
        /\ FileTokens(storeFile, proc[p].handle) = proc[p].before

\* C7. Successful login caches the session: when a login whose verify
\* answer carried sessionToken and expiresAt has completed, the store file
\* holds a record for the handle with exactly these two values and with both
\* key fields, also when the reloaded store had no record for the handle.
C7_LoginCachesSession ==
    \A p \in Procs :
        (/\ proc[p].cmd = "agent-auth"
         /\ proc[p].pc = "done"
         /\ proc[p].ver.sessionToken # NoField
         /\ proc[p].ver.expiresAt # NoField)
        => /\ storeFile.exists
           /\ Parses(storeFile.data)
           /\ proc[p].handle \in DOMAIN Collect(storeFile.data).agents
           /\ FileTokens(storeFile, proc[p].handle) = proc[p].ver
           /\ HasKeypair(storeFile, proc[p].handle)

\* A login completed whose step-5 reload found no record for the handle.
C7_Witness ==
    \E p \in Procs :
        /\ proc[p].cmd = "agent-auth"
        /\ proc[p].pc = "done"
        /\ proc[p].fallback
        /\ edits > 0
        /\ proc[p].ver.sessionToken \in SessionTokens
        /\ proc[p].ver.expiresAt \in Expiries

\* C8. Crash atomicity of save: while a process is inside _save_store, and
\* after it was killed there, the store file is exactly what it was when
\* _save_store was called, and parses if it exists; the rename ends the save
\* with the store file holding the complete new content.
C8_SaveCrashAtomic ==
    [][\A p \in Procs :
         /\ (proc'[p].pc \in InSave \/ (proc'[p].pc = "crashed" /\ proc'[p].why = "in_save"))
              => /\ storeFile' = proc'[p].prev
                 /\ storeFile'.exists => Parses(storeFile'.data)
         /\ (proc[p].pc = "save_replace" /\ proc'[p].pc \notin {"save_replace", "crashed"})
              => storeFile' = FileOf(Serialize(proc[p].store))]_vars

\* A process was killed inside _save_store over an existing store file,
\* leaving a partly written temp file.
C8_Witness ==
    \E p \in Procs :
        /\ proc[p].pc = "crashed"
        /\ proc[p].why = "in_save"
        /\ tmpFile.exists
        /\ Len(tmpFile.data) >= 1
        /\ ~Parses(tmpFile.data)
        /\ storeFile.exists
        /\ Parses(storeFile.data)
        /\ storeFile = proc[p].prev
        /\ storeFile # FileOf(Serialize(proc[p].store))

\* C9. No corruption under concurrent saves: the store file changes only to
\* the complete serialization of the store a _save_store call in progress
\* was given, and no _save_store fails on the missing temp file.
C9_NoCorruptionUnderConcurrentSaves ==
    [][/\ storeFile' # storeFile
            => \E p \in Procs :
                  proc[p].pc \in InSave /\ storeFile' = FileOf(Serialize(proc[p].store))
       /\ \A p \in Procs : proc'[p].why # "replace_enoent"]_vars

\* C10. Reload before the final write preserves unrelated mutations: when
\* another invocation committed a change to other records between a login's
\* step-1 save and its step-5 reload, then after the login's final save the
\* store file holds every record other than the login's own as the reload
\* read it.
C10_ReloadPreservesOthers ==
    [][\A p \in Procs :
         (/\ proc[p].cmd = "agent-auth"
          /\ proc[p].pc = "save_replace"
          /\ proc[p].after = "finish"
          /\ proc[p].mid
          /\ proc'[p].pc = "done")
         => /\ storeFile'.exists
            /\ Parses(storeFile'.data)
            /\ Others(Collect(storeFile'.data), proc[p].handle)
                 = Others(proc[p].store, proc[p].handle)]_vars

\* The key recorded for device handle d in a file, as a reader gets it.
DeviceKey(file, d) == GetKey(Readable(file).devices, d)

\* C11. Device key reuse over run-to-completion invocations: all start
\* requests ever sent for a device handle carry one publicKey value, which
\* is the one recorded in the store file (it was persisted before the
\* request was sent, whatever the outcome of the request); a recorded key is
\* never changed; and a device-start draws a new key only when the store it
\* loaded records none for the handle, and otherwise sends the recorded one.
C11_DeviceKeyReuse ==
    [][/\ \A d \in DevHandles :
            /\ Cardinality({r.pub : r \in startReqs'[d]}) <= 1
            /\ \A r \in startReqs'[d] : r.pub # NoKey /\ r.pub = DeviceKey(storeFile', d)
            /\ DeviceKey(storeFile, d) # NoKey
                 => DeviceKey(storeFile', d) = DeviceKey(storeFile, d)
       /\ \A p \in Procs :
            (CanStart(p) /\ runs' = runs + 1 /\ proc'[p].cmd = "device-start")
            => LET d == proc'[p].handle
               IN  /\ keysMade' # keysMade
                        => storeFile = NoFile \/ DeviceKey(storeFile, d) = NoKey
                   /\ DeviceKey(storeFile, d) # NoKey
                        => /\ keysMade' = keysMade
                           /\ proc'[p].pc = "device_request"
                           /\ proc'[p].pub = DeviceKey(storeFile, d)]_vars

\* Two start requests were sent for a device handle, the first of which
\* failed, and only one key was ever drawn.
C11_Witness ==
    \E d \in DevHandles, p \in Procs :
        /\ proc[p].cmd = "device-start"
        /\ proc[p].pc = "done"
        /\ runs = 2
        /\ keysMade = 1
        /\ startReqs[d] = {[pub |-> DeviceKey(storeFile, d), raised |-> TRUE],
                           [pub |-> DeviceKey(storeFile, d), raised |-> FALSE]}

\* Process p starts an invocation of one of the commands of UseCmds in this
\* step, and its token resolution does not fail.
Resolves(p) ==
    /\ CanStart(p)
    /\ runs' = runs + 1
    /\ proc'[p].cmd \in UseCmds
    /\ proc'[p].pc = "main_request"

\* lastSessionToken of handle h in the store file, trimmed; "" when there
\* is no file, no record or no such field.
StoredToken(h) ==
    LET tok == FileTokens(storeFile, h).sessionToken
    IN  IF tok = NoField THEN "" ELSE Strip(tok)

\* C12. Token resolution precedence: the token a command goes on with is
\* the trimmed explicit token when that is non-empty; otherwise, when an
\* agent handle is given, the trimmed lastSessionToken of that handle in the
\* store when that is non-empty; otherwise none.  (With a non-empty explicit
\* token the stored one plays no part.)
C12_TokenResolutionPrecedence ==
    [][\A p \in Procs :
         Resolves(p)
         => LET t == Strip(proc'[p].args.token)
                h == Strip(proc'[p].args.agent)
            IN  proc'[p].token =
                  IF t # "" THEN t
                  ELSE IF h # "" /\ StoredToken(h) # "" THEN StoredToken(h)
                  ELSE None]_vars

\* A command given a blank --token and an agent handle goes on with the
\* handle's stored token, which is stored padded, trimmed.
C12_Witness ==
    \E p \in Procs :
        /\ proc[p].cmd \in UseCmds
        /\ proc[p].pc = "main_request"
        /\ proc[p].args = [token |-> " ", agent |-> " alice "]
        /\ FileTokens(storeFile, "alice").sessionToken = " s2 "
        /\ proc[p].token = "s2"

\* An expiresAt that lies in the past whenever the command runs.
PastExpiry == "2000-01-01T00:00:00Z"

ExpiryValues == {NoField, "", PastExpiry} \cup Expiries

\* The store with lastSessionExpiresAt of handle h set to e (h has a record).
WithExpiry(store, h, e) ==
    [store EXCEPT !.agents = SetAt(@, h, [store.agents[h] EXCEPT
                                            !.lastSessionExpiresAt = e])]

\* C13. Resolution ignores expiry: when a command resolves its token from
\* the record of an agent handle, it gets what _agent_token_from_store gives
\* on every store that differs from the loaded one only in the handle's
\* lastSessionExpiresAt (absent, empty, in the past or not), namely the
\* trimmed stored token; and the Authorization header of the command's
\* request and of the handle lookup carries exactly the resolved token.
C13_ResolutionIgnoresExpiry ==
    [][\A p \in Procs :
         /\ (/\ Resolves(p)
             /\ Strip(proc'[p].args.token) = ""
             /\ Strip(proc'[p].args.agent) \in DOMAIN Readable(storeFile).agents)
            => LET h == Strip(proc'[p].args.agent)
               IN  /\ \A e \in ExpiryValues :
                        proc'[p].token
                          = agent_token_from_store(WithExpiry(Readable(storeFile), h, e), h)
                   /\ StoredToken(h) # "" => proc'[p].token = StoredToken(h)
         /\ (/\ proc[p].pc = "main_request"
             /\ proc[p].cmd \in TokenCmds
             /\ Len(proc'[p].trace) > Len(proc[p].trace))
            => proc'[p].auth = proc[p].token
         /\ (proc[p].pc = "me_lookup" /\ Len(proc'[p].trace) > Len(proc[p].trace))
            => proc'[p].auth = proc[p].token]_vars

\* A command has sent, as its bearer token, the stored token of a handle
\* whose record has an empty lastSessionExpiresAt.
C13_Witness ==
    \E p \in Procs :
        /\ proc[p].cmd = "poker-tables"
        /\ proc[p].pc = "me_lookup"
        /\ FileTokens(storeFile, "alice") = [sessionToken |-> "s1", expiresAt |-> ""]
        /\ proc[p].token = "s1"
        /\ proc[p].auth = "s1"

\* A store file holding two empty mappings.
TwoEmptyMappings == FileOf(Serialize(EmptyStore))

\* Process p starts an invocation in this step.
Starts(p) == CanStart(p) /\ runs' = runs + 1

\* C14. First-run default: an invocation started when there is no store
\* file does not fail on loading it, and goes on exactly as it does on the
\* store read from a file holding two empty mappings: agent-auth generates a
\* keypair and calls save with a store holding only the handle's record,
\* device-start draws a key and calls save with a store holding only the
\* handle's key, and token resolution for an agent handle gives no token.
C14_FirstRunDefault ==
    [][~storeFile.exists
       => /\ Parses(TwoEmptyMappings.data)
          /\ \A p \in Procs :
               Starts(p)
               => LET r == proc'[p]
                      E == Collect(TwoEmptyMappings.data)
                      k == keysMade + 1
                  IN  /\ r.pc # "failed"
                      /\ r.cmd = "agent-auth"
                           => /\ r.pc = "save_open"
                              /\ r.store = ensure_agent_keypair(E, r.handle, k).store
                              /\ r.ent = ensure_agent_keypair(E, r.handle, k).ent
                              /\ DOMAIN r.store.agents = {r.handle}
                              /\ DOMAIN r.store.devices = {}
                              /\ keysMade' = k
                      /\ r.cmd = "device-start"
                           => /\ r.pc = "save_open"
                              /\ r.store = [E EXCEPT !.devices = SetAt(@, r.handle, r.pub)]
                              /\ r.pub = b64(Urandom(k))
                              /\ DOMAIN r.store.agents = {}
                              /\ keysMade' = k
                      /\ r.cmd \in UseCmds
                           => /\ r.pc = "main_request"
                              /\ r.token = IF Strip(r.args.token) # ""
                                           THEN Strip(r.args.token)
                                           ELSE agent_token_from_store(E, Strip(r.args.agent))
                              /\ Strip(r.args.token) = "" => r.token = None]_vars

\* An agent-auth started with no store file has loaded the default store and
\* is about to save the handle's new record.
C14_Witness ==
    \E p \in Procs :
        /\ proc[p].cmd = "agent-auth"
        /\ proc[p].pc = "save_open"
        /\ proc[p].after = "register"
        /\ ~storeFile.exists
        /\ proc[p].prev = NoFile
        /\ DOMAIN proc[p].store.agents = {proc[p].handle}
        /\ HasKeypair(FileOf(Serialize(proc[p].store)), proc[p].handle)

\* The file exists and json.load fails on it.
Malformed(file) == file.exists /\ ~Parses(file.data)

\* C15. A malformed store is fatal, without recovery: while the store file
\* exists and does not parse, no step changes it, the temp file or the
\* request histories, or draws a key; an agent-auth or device-start started
\* then fails on the load with no event at all, and so does every other
\* command unless its token resolution does not read the store (a non-blank
\* --token, or no --agent).
C15_MalformedStoreFatal ==
    [][Malformed(storeFile)
       => /\ storeFile' = storeFile
          /\ tmpFile' = tmpFile
          /\ keysMade' = keysMade
          /\ verifyPubs' = verifyPubs
          /\ startReqs' = startReqs
          /\ \A p \in Procs :
               Starts(p)
               => LET r == proc'[p]
                  IN  /\ r.pc \in {"failed", "main_request"}
                      /\ r.pc = "failed" => r.why = "store_parse" /\ r.trace = <<>>
                      /\ r.pc = "main_request"
                           => /\ r.cmd \in UseCmds
                              /\ Strip(r.args.token) # "" \/ Strip(r.args.agent) = ""]_vars

\* Over a store file that does not parse, a command that resolves its token
\* from an agent handle has failed without sending anything, after an
\* earlier invocation, and the file is still what it was.
C15_Witness ==
    \E p \in Procs :
        /\ proc[p].cmd \in UseCmds
        /\ proc[p].pc = "failed"
        /\ proc[p].why = "store_parse"
        /\ proc[p].trace = <<>>
        /\ runs >= 2
        /\ storeFile = FileOf(<<GarbagePiece>>)
        /\ ~tmpFile.exists

\* The command of process p got a 2xx answer to its main request.
MainSucceeded(p) ==
    /\ proc[p].cmd \in UseCmds
    /\ Len(proc[p].trace) >= 1
    /\ proc[p].trace[1].ev = "request"
    /\ proc[p].trace[1].status = "ok"

\* C16. The handle lookup fails silently: a command whose main request
\* succeeded and whose lookup of the handle to display failed, by a
\* transport failure or by a non-2xx answer, has not been aborted by it: it
\* ends at its print with status 0 (unless it is killed).
C16_LookupFailsSilently ==
    \A p \in Procs :
        (/\ MainSucceeded(p)
         /\ Len(proc[p].trace) = 2
         /\ proc[p].trace[2].ev = "me_lookup"
         /\ proc[p].trace[2].status # "ok")
        => proc[p].pc = "done"

\* Process p takes this step as one of the commands of UseCmds.
UseStep(p) ==
    \/ Starts(p) /\ proc'[p].cmd \in UseCmds
    \/ /\ proc[p].cmd \in UseCmds
       /\ proc[p].pc \notin Stopped
       /\ proc'[p] # proc[p]

\* C17. Token resolution is read-only: no step of a command other than
\* agent-auth and device-start, its token resolution included, changes the
\* store file or the temp file; an absent store file stays absent and the
\* handle asked for gets no record.
C17_ResolutionReadOnly ==
    [][\A p \in Procs :
         UseStep(p)
         => /\ storeFile' = storeFile
            /\ tmpFile' = tmpFile
            /\ keysMade' = keysMade]_vars

\* A command has resolved its token through an agent handle that has no
\* record, with no store file, and there is still no file.
C17_Witness ==
    \E p \in Procs :
        /\ proc[p].cmd \in UseCmds
        /\ proc[p].pc = "main_request"
        /\ proc[p].args = [token |-> "", agent |-> " alice "]
        /\ proc[p].token = None
        /\ ~storeFile.exists
        /\ ~tmpFile.exists

\* Everything of a store but the record that the invocation r writes: the
\* agent record of its handle, or the device key of its handle.
NotOwn(store, r) ==
    IF r.cmd = "agent-auth" THEN Others(store, r.handle)
    ELSE [agents |-> store.agents,
          devices |-> [d \in (DOMAIN store.devices) \ {r.handle} |-> store.devices[d]]]

\* The rename of process p installs, in this step, the complete store that
\* its _save_store was given.
IntactSave(p) ==
    /\ proc[p].pc = "save_replace"
    /\ proc'[p].pc \notin {"save_replace", "crashed", "failed"}
    /\ tmpFile = FileOf(Serialize(proc[p].store))
    /\ storeFile' = tmpFile

\* C18. Lost updates come from the missing lock, not from a broken file:
\* when two invocations have both completed an agent-auth or a device-start
\* the store file is well-formed; and a complete save undoes what the store
\* file holds in records other than the saving invocation's own only when
\* the file has changed since the invocation loaded it.  (C18_Witness is
\* the lost update itself: both logins completed, the file well-formed, one
\* login's session missing from it.)
C18_LostUpdateByStaleSave ==
    [][/\ (\A p \in Procs : /\ proc'[p].pc = "done"
                             /\ proc'[p].cmd \in {"agent-auth", "device-start"})
            => storeFile'.exists /\ Parses(storeFile'.data)
       /\ \A p \in Procs :
            (/\ IntactSave(p)
             /\ NotOwn(Readable(storeFile'), proc[p]) # NotOwn(Readable(storeFile), proc[p]))
            => proc[p].prev # storeFile]_vars

\* Two logins for different handles have both completed with a session, the
\* store file is well-formed and holds the second one's session, and the
\* session of the first one is not in it.
C18_Witness ==
    /\ \A p \in Procs :
         /\ proc[p].cmd = "agent-auth"
         /\ proc[p].pc = "done"
         /\ proc[p].ver.sessionToken \in SessionTokens
         /\ proc[p].ver.expiresAt \in Expiries
    /\ proc[1].handle # proc[2].handle
    /\ storeFile.exists
    /\ Parses(storeFile.data)
    /\ FileTokens(storeFile, proc[2].handle) = proc[2].ver
    /\ HasKeypair(storeFile, proc[1].handle)
    /\ FileTokens(storeFile, proc[1].handle) = NoSession

\* C19. Keypair immutability under interleaving: while two agent-auth
\* invocations for the same handle are running or have run, a complete save
\* by either of them does not replace a keypair that the store file holds
\* for the handle by a different keypair.
C19_KeypairImmutableInterleaved ==
    [][\A h \in Handles :
         (/\ \A p \in Procs : proc[p].cmd = "agent-auth" /\ proc[p].handle = h
          /\ \E p \in Procs : IntactSave(p)
          /\ HasKeypair(storeFile, h)
          /\ HasKeypair(storeFile', h))
         => FileKeys(storeFile', h) = FileKeys(storeFile, h)]_vars

\* C20. Token/key consistency: when the final save of a login installs the
\* handle's record with a non-empty lastSessionToken, the publicKeyB64 of
\* that record is the public key the login sent in the verify exchange that
\* issued the token.
C20_TokenKeyConsistent ==
    [][\A p \in Procs :
         (/\ proc[p].cmd = "agent-auth"
          /\ proc[p].after = "finish"
          /\ IntactSave(p)
          /\ Truthy(FileTokens(storeFile', proc[p].handle).sessionToken))
         => /\ FileTokens(storeFile', proc[p].handle).sessionToken
                 = proc[p].ver.sessionToken
            /\ FileKeys(storeFile', proc[p].handle)[1] = proc[p].pub]_vars

====
